---- MODULE Spec2Model ----
(***************************************************************************)
(* git-scanner (src/main.py): the fetch / aggregate pipeline.              *)
(*                                                                         *)
(* Spec       one run of main(): argument dispatch, repository             *)
(*            enumeration, the ThreadPoolExecutor batch, collection with   *)
(*            as_completed, report / export and the exit status.  Each     *)
(*            get_repo_stats call is one step of a worker thread.          *)
(* SpecFetch  one call of the API client, request by request: either       *)
(*            get_all_repos, or get_repo_stats with the two pagination     *)
(*            loops of get_repo_issues_and_prs and the summary it derives. *)
(* SpecLive   Spec with the fairness of the thread scheduling.             *)
(* SpecMean   the summary and the record computed from fetched entries     *)
(*            with a range of closing times.                               *)
(***************************************************************************)
EXTENDS Integers, Sequences, FiniteSets, TLC

\* Largest number of repositories the enumeration returns.
MaxRepos == 6

\* Largest number of "/" separators in the owner argument.
MaxSlashes == 2

\* Largest number of list entries the API returns during one client call
\* (repositories, or issue-list entries plus pull-request entries).
MaxEntries == 3

\* Largest number of fetched entries (issue-list entries plus pull-request
\* entries) a summary is computed from in SpecMean.
MaxSample == 3

\* ThreadPoolExecutor(max_workers=5)
max_workers == 5

\* Python's None, and the "not assigned yet" state of a local variable.
None == [kind |-> "None"]
Unset == [kind |-> "unset"]

\* Python truthiness of the values the program tests with "if x" / "x or y".
Truthy(v) == v.kind \in {"record", "list"} /\ (v.kind = "list" => v.n > 0)

(***************************************************************************)
(* State of main()                                                         *)
(***************************************************************************)
VARIABLES
    args,        \* parsed command line: token, issues, repo, slashes in owner
    pc,          \* position of the main thread
    exit_code,   \* -1 while running, else the process exit status
    message,     \* the last diagnostic printed by main / get_token / get_all_repos
    requested,   \* TRUE once an API request has been sent
    repos,       \* number of repositories returned by get_all_repos (-1: unset)
    future,      \* future_to_repo: state of the future of each repository
    result,      \* future.result() of each finished future
    stats,       \* the list `stats`
    pbar,        \* tqdm progress count
    issues,      \* the value of get_repository_issues: Unset, None or a list
    interrupted, \* "no", or where the main thread was when KeyboardInterrupt
                 \* was raised in it
    displayed,   \* display_stats / display_issues printed a report
    exported     \* "none", or which export wrote a file

mvars == <<args, pc, exit_code, message, requested, repos, future, result,
           stats, pbar, issues, interrupted, displayed, exported>>

(***************************************************************************)
(* State of one client call (get_all_repos / get_repo_stats)               *)
(***************************************************************************)
VARIABLES
    fcall,          \* the method called
    fpc,            \* position inside the call
    page,           \* the loop variable `page`
    all_repos,      \* get_all_repos: the list `repos`
    all_issues,     \* get_repo_issues_and_prs: `all_issues`
    all_prs,        \* get_repo_issues_and_prs: `all_prs`
    last_commit,    \* get_repo_stats: `last_commit`
    issue_pr_stats, \* get_repo_stats: value of get_repo_issues_and_prs(...)
    ret,            \* the value the call returned
    log             \* every request sent, with the answer received

fvars == <<fcall, fpc, page, all_repos, all_issues, all_prs, last_commit,
           issue_pr_stats, ret, log>>

vars == <<mvars, fvars>>

Repo == 1..MaxRepos

\* What the API answers to the requests of one get_repo_stats call.
\*   meta    GET /repos/{owner}/{repo}          ok | empty (falsy body) | fail
\*   commit  GET .../commits?per_page=1         ok | empty | nodate | fail
\*   tracker get_repo_issues_and_prs            ok | fail (returned None)
Responses ==
    [meta : {"ok", "empty", "fail"},
     commit : {"ok", "empty", "nodate", "fail"},
     tracker : {"ok", "fail"}]

\* get_repo_stats as one step: the record, or None.
get_repo_stats(name, resp) ==
    IF resp.meta = "fail" THEN None                 \* raise_for_status -> except
    ELSE IF resp.meta = "empty" THEN None           \* if not repo_data
    ELSE IF resp.commit = "fail" THEN None          \* raise_for_status -> except
    ELSE [kind |-> "record", name |-> name]

Exit(code, msg) ==
    /\ pc' = "exit"
    /\ exit_code' = code
    /\ message' = msg

\* No client call is modelled request by request in a run of main().
FetchIdle ==
    /\ fcall = "none"
    /\ fpc = "idle"
    /\ page = 1
    /\ all_repos = <<>>
    /\ all_issues = <<>>
    /\ all_prs = <<>>
    /\ last_commit = "unset"
    /\ issue_pr_stats = Unset
    /\ ret = Unset
    /\ log = <<>>

Init ==
    /\ FetchIdle
    /\ args \in [token : BOOLEAN, issues : BOOLEAN, repo : BOOLEAN,
                 slashes : 0..MaxSlashes]
    /\ pc = "start"
    /\ exit_code = -1
    /\ message = "none"
    /\ requested = FALSE
    /\ repos = -1
    /\ future = [i \in Repo |-> "none"]
    /\ result = [i \in Repo |-> Unset]
    /\ stats = <<>>
    /\ pbar = 0
    /\ issues = Unset
    /\ interrupted = "no"
    /\ displayed = FALSE
    /\ exported = "none"

\* main, lines 537-573: token lookup and mode dispatch.
Start ==
    /\ pc = "start"
    /\ IF ~args.token
         THEN Exit(1, "no_token")
         ELSE IF args.issues
           THEN IF ~args.repo
                  THEN Exit(1, "issues_requires_repo")
                  ELSE pc' = "issues" /\ UNCHANGED <<exit_code, message>>
           ELSE /\ pc' = IF args.repo THEN "repo" ELSE "owner"
                /\ UNCHANGED <<exit_code, message>>
    /\ UNCHANGED fvars
    /\ UNCHANGED <<args, requested, repos, future, result, stats, pbar,
                   issues, interrupted, displayed, exported>>

\* main, lines 545-563, with get_repository_issues (lines 210-264) as one step.
FetchIssues ==
    /\ pc = "issues"
    /\ IF args.slashes >= 2
         THEN \* owner, repo = owner.split('/') : ValueError, before the try
              /\ Exit(1, "unexpected")
              /\ UNCHANGED <<requested, issues, displayed, exported>>
         ELSE /\ requested' = TRUE
              /\ \E found \in {None, [kind |-> "list", n |-> 0],
                                [kind |-> "list", n |-> 1]},
                    output \in BOOLEAN :
                   /\ issues' = found
                   /\ IF Truthy(found)
                        THEN /\ displayed' = TRUE
                             /\ exported' = IF output THEN "issues" ELSE "none"
                             /\ Exit(0, "none")
                        ELSE /\ Exit(1, "no_issues")
                             /\ UNCHANGED <<displayed, exported>>
    /\ UNCHANGED fvars
    /\ UNCHANGED <<args, repos, future, result, stats, pbar, interrupted>>

\* main, lines 567-572: --repo mode, one synchronous get_repo_stats call.
\* With a "/" in the owner the request path names no repository: 404.
RepoStats ==
    /\ pc = "repo"
    /\ requested' = TRUE
    /\ \E resp \in Responses :
         /\ args.slashes > 0 => resp.meta = "fail"
         /\ LET r == get_repo_stats(1, resp) IN
              /\ stats' = <<r>>
              /\ IF ~Truthy(r)
                   THEN Exit(1, "failed_repo")
                   ELSE pc' = "report" /\ UNCHANGED <<exit_code, message>>
    /\ UNCHANGED fvars
    /\ UNCHANGED <<args, repos, future, result, pbar, issues, interrupted,
                   displayed, exported>>

\* Enumerate without the "/" check of get_all_repos.
Enumerate_unchecked ==
    /\ pc = "owner"
    /\ requested' = TRUE
    /\ \/ /\ Exit(1, "request_error")
          /\ UNCHANGED repos
       \/ \E n \in 0..MaxRepos :
            /\ repos' = n
            /\ IF n = 0
                 THEN Exit(1, "no_repos")
                 ELSE /\ pc' = "submitting"
                      /\ UNCHANGED <<exit_code, message>>
    /\ UNCHANGED fvars
    /\ UNCHANGED <<args, future, result, stats, pbar, issues, interrupted,
                   displayed, exported>>

\* main, lines 574-580, with get_all_repos (lines 35-60) as one step.
Enumerate ==
    /\ pc = "owner"
    /\ IF args.slashes > 0
         THEN /\ Exit(1, "bad_owner")
              /\ UNCHANGED <<requested, repos>>
         ELSE /\ requested' = TRUE
              /\ \/ /\ Exit(1, "request_error")        \* raise_for_status
                    /\ UNCHANGED repos
                 \/ \E n \in 0..MaxRepos :
                      /\ repos' = n
                      /\ IF n = 0
                           THEN Exit(1, "no_repos")
                           ELSE /\ pc' = "submitting"
                                /\ UNCHANGED <<exit_code, message>>
    /\ UNCHANGED fvars
    /\ UNCHANGED <<args, future, result, stats, pbar, issues, interrupted,
                   displayed, exported>>

Submitted == {i \in Repo : future[i] # "none"}
Running == {i \in Repo : future[i] = "running"}
Pending == {i \in Repo : future[i] = "pending"}

\* main, lines 583-589: executor.submit for the next repository of `repos`.
Submit ==
    /\ pc = "submitting"
    /\ LET i == Cardinality(Submitted) + 1 IN
         /\ future' = [future EXCEPT ![i] = "pending"]
         /\ pc' = IF i = repos THEN "collecting" ELSE "submitting"
    /\ UNCHANGED fvars
    /\ UNCHANGED <<args, exit_code, message, requested, repos, result, stats,
                   pbar, issues, interrupted, displayed, exported>>

\* WorkerStart without the limit on the number of pool threads.
WorkerStart_unbounded ==
    /\ Pending # {}
    /\ LET i == CHOOSE j \in Pending : \A k \in Pending : j <= k IN
         future' = [future EXCEPT ![i] = "running"]
    /\ UNCHANGED fvars
    /\ UNCHANGED <<args, pc, exit_code, message, requested, repos, result,
                   stats, pbar, issues, interrupted, displayed, exported>>

\* A pool thread takes the oldest work item of the executor's FIFO queue.
WorkerStart ==
    /\ Pending # {}
    /\ Cardinality(Running) < max_workers
    /\ LET i == CHOOSE j \in Pending : \A k \in Pending : j <= k IN
         future' = [future EXCEPT ![i] = "running"]
    /\ UNCHANGED fvars
    /\ UNCHANGED <<args, pc, exit_code, message, requested, repos, result,
                   stats, pbar, issues, interrupted, displayed, exported>>

\* A pool thread returns from get_repo_stats: the future is done.
WorkerFinish(i) ==
    /\ future[i] = "running"
    /\ \E resp \in Responses :
         result' = [result EXCEPT ![i] = get_repo_stats(i, resp)]
    /\ future' = [future EXCEPT ![i] = "finished"]
    /\ UNCHANGED fvars
    /\ UNCHANGED <<args, pc, exit_code, message, requested, repos, stats,
                   pbar, issues, interrupted, displayed, exported>>

\* main, lines 595-596: if repo_stats: stats.append(repo_stats)
collect_unfiltered(acc, repo_stats) == Append(acc, repo_stats)
collect(acc, repo_stats) ==
    IF Truthy(repo_stats) THEN Append(acc, repo_stats) ELSE acc

\* Collect with the loop left as soon as no other finished future is waiting.
Collect_available(i) ==
    /\ pc = "collecting"
    /\ future[i] = "finished"
    /\ future' = [future EXCEPT ![i] = "collected"]
    /\ stats' = collect(stats, result[i])
    /\ pbar' = pbar + 1
    /\ pc' = IF \A j \in 1..repos : j = i \/ future[j] # "finished"
               THEN "report" ELSE "collecting"
    /\ UNCHANGED fvars
    /\ UNCHANGED <<args, exit_code, message, requested, repos, result,
                   issues, interrupted, displayed, exported>>

\* main, lines 593-597: as_completed yields a finished future.
Collect(i) ==
    /\ pc = "collecting"
    /\ future[i] = "finished"
    /\ future' = [future EXCEPT ![i] = "collected"]
    /\ stats' = collect(stats, result[i])
    /\ pbar' = pbar + 1
    /\ pc' = IF \A j \in 1..repos : j = i \/ future[j] = "collected"
               THEN "report" ELSE "collecting"
    /\ UNCHANGED fvars
    /\ UNCHANGED <<args, exit_code, message, requested, repos, result,
                   issues, interrupted, displayed, exported>>

\* Report without the sys.exit(1) of the empty case.
Report_exits_zero ==
    /\ pc = "report"
    /\ IF stats # <<>>
         THEN /\ displayed' = TRUE
              /\ \E format \in BOOLEAN :
                   exported' = IF format THEN "stats" ELSE "none"
              /\ Exit(0, "none")
         ELSE /\ Exit(0, "no_stats")
              /\ UNCHANGED <<displayed, exported>>
    /\ UNCHANGED fvars
    /\ UNCHANGED <<args, requested, repos, future, result, stats, pbar,
                   issues, interrupted>>

\* main, lines 599-608: display, optional export, exit status.
Report ==
    /\ pc = "report"
    /\ IF stats # <<>>
         THEN /\ displayed' = TRUE
              /\ \E format \in BOOLEAN :
                   exported' = IF format THEN "stats" ELSE "none"
              /\ Exit(0, "none")
         ELSE /\ Exit(1, "no_stats")
              /\ UNCHANGED <<displayed, exported>>
    /\ UNCHANGED fvars
    /\ UNCHANGED <<args, requested, repos, future, result, stats, pbar,
                   issues, interrupted>>

\* main, lines 613-615: KeyboardInterrupt in the main thread.  Inside the
\* executor's with-block, __exit__ first waits for the submitted calls.
Interrupt ==
    /\ pc \notin {"exit", "shutdown"}
    /\ interrupted' = pc
    /\ IF pc \in {"submitting", "collecting"}
         THEN pc' = "shutdown" /\ UNCHANGED <<exit_code, message>>
         ELSE Exit(1, "cancelled")
    /\ UNCHANGED fvars
    /\ UNCHANGED <<args, requested, repos, future, result, stats, pbar,
                   issues, displayed, exported>>

\* Shutdown with the KeyboardInterrupt swallowed: the run goes on to report.
Shutdown_resumes ==
    /\ pc = "shutdown"
    /\ Pending = {} /\ Running = {}
    /\ pc' = "report"
    /\ UNCHANGED fvars
    /\ UNCHANGED <<args, exit_code, message, requested, repos, future, result,
                   stats, pbar, issues, interrupted, displayed, exported>>

\* executor.shutdown(wait=True) returns, the KeyboardInterrupt propagates.
Shutdown ==
    /\ pc = "shutdown"
    /\ Pending = {} /\ Running = {}
    /\ Exit(1, "cancelled")
    /\ UNCHANGED fvars
    /\ UNCHANGED <<args, requested, repos, future, result, stats, pbar,
                   issues, interrupted, displayed, exported>>

Next ==
    \/ Start
    \/ FetchIssues
    \/ RepoStats
    \/ Enumerate
    \/ Submit
    \/ WorkerStart
    \/ \E i \in Repo : WorkerFinish(i)
    \/ \E i \in Repo : Collect(i)
    \/ Report
    \/ Interrupt
    \/ Shutdown

Spec == Init /\ [][Next]_vars

\* The steps of the main thread and of the pool threads: everything but the
\* arrival of a KeyboardInterrupt.
Progress ==
    \/ Start
    \/ FetchIssues
    \/ RepoStats
    \/ Enumerate
    \/ Submit
    \/ WorkerStart
    \/ \E i \in Repo : WorkerFinish(i)
    \/ \E i \in Repo : Collect(i)
    \/ Report
    \/ Shutdown

\* A run in which a thread that can take a step eventually takes one and
\* every request eventually returns.  No fairness on Interrupt: the user
\* need not press Ctrl-C.
SpecLive == Init /\ [][Next]_vars /\ WF_vars(Progress)

(***************************************************************************)
(* Properties of a run of main() (Spec)                                    *)
(***************************************************************************)

OwnerMode == ~args.issues /\ ~args.repo
RepoMode == ~args.issues /\ args.repo
IssuesMode == args.issues /\ args.repo

\* Every enumerated repository was submitted and its future collected.
BatchComplete ==
    /\ OwnerMode
    /\ repos >= 1
    /\ \A i \in 1..repos : future[i] = "collected"

\* The calls of the batch that returned None.
FailedCalls == {i \in 1..repos : result[i] = None}

\* C2: once the batch of N repositories is complete, `stats` holds N - K
\* records, K being the number of get_repo_stats calls that returned None,
\* in whatever order the workers completed.
C2_DispatcherCount ==
    BatchComplete =>
        /\ Len(stats) = repos - Cardinality(FailedCalls)
        /\ \A i \in 1..repos :
             Cardinality({k \in 1..Len(stats) : stats[k].name = i})
                 = IF i \in FailedCalls THEN 0 ELSE 1

\* C2 witness: a complete batch with a failed call and two records that
\* were collected against the submission order.
C2_Witness ==
    /\ BatchComplete
    /\ FailedCalls # {}
    /\ Len(stats) >= 2
    /\ stats[1].name > stats[2].name

\* The enumeration request of get_all_repos raised.
EnumerationFailed == OwnerMode /\ requested /\ repos = -1

\* The aggregator calls produced no record.
NoStatistics ==
    \/ RepoMode /\ stats = <<None>>
    \/ BatchComplete /\ stats = <<>>

\* C8 as stated: exit code 1 exactly in the listed fatal conditions
\* (missing token, bad owner format, enumeration failure, no repositories,
\* no statistics, user interrupt, unhandled error), exit code 0 otherwise.
C8_Original ==
    pc = "exit" =>
        /\ exit_code \in {0, 1}
        /\ exit_code = 1 <=>
             \/ ~args.token
             \/ args.slashes > 0
             \/ EnumerationFailed
             \/ repos = 0
             \/ NoStatistics
             \/ interrupted # "no"

\* C8 amended: the run exits 1 exactly when the token is missing, the user
\* interrupts, --issues is given without --repo, the issue export finds no
\* issue (fetch failed or empty list) or cannot split an owner with more
\* than one "/", the --repo call returns None, or, in owner mode, the owner
\* holds a "/", the enumeration fails, no repository is found or no
\* repository yields a record; it exits 0 otherwise.
C8_ExitStatus ==
    pc = "exit" =>
        /\ exit_code \in {0, 1}
        /\ exit_code = 1 <=>
             \/ ~args.token
             \/ interrupted # "no"
             \/ args.issues /\ ~args.repo
             \/ IssuesMode /\ (args.slashes >= 2 \/ ~Truthy(issues))
             \/ RepoMode /\ stats = <<None>>
             \/ OwnerMode /\ args.slashes > 0
             \/ EnumerationFailed
             \/ OwnerMode /\ repos = 0
             \/ BatchComplete /\ stats = <<>>

\* C8 witness: a batch in which a repository failed and another yielded a
\* record has exited with code 0.
C8_Witness ==
    /\ pc = "exit"
    /\ exit_code = 0
    /\ BatchComplete
    /\ FailedCalls # {}

\* C9: after a KeyboardInterrupt raised while the batch is running, no
\* report is displayed, no export file is written, and the run ends with
\* exit code 1.
C9_InterruptedBatch ==
    interrupted \in {"submitting", "collecting"} =>
        /\ pc \in {"shutdown", "exit"}
        /\ ~displayed
        /\ exported = "none"
        /\ pc = "exit" => exit_code = 1

\* C9 witness: the run ended after an interrupt that arrived when a record
\* had been collected and another call was still to be collected.
C9_Witness ==
    /\ pc = "exit"
    /\ interrupted = "collecting"
    /\ Len(stats) >= 1
    /\ \E i \in 1..repos : future[i] = "finished"

\* C10: one future per enumerated repository, all of them submitted before
\* collection starts, and never more than max_workers calls running.
C10_BoundedConcurrency ==
    /\ Cardinality(Running) <= max_workers
    /\ Submitted \subseteq 1..repos
    /\ pc \in {"collecting", "report"} => Submitted = 1..repos

\* C10 witness: the pool is full while a submitted call waits.
C10_Witness ==
    /\ Cardinality(Running) = max_workers
    /\ Pending # {}

\* The life of a future: submitted, started by a pool thread, finished,
\* yielded by as_completed; each stage is entered once.
FutureStep ==
    {<<"none", "pending">>, <<"pending", "running">>,
     <<"running", "finished">>, <<"finished", "collected">>}

\* The futures as_completed has yielded.
Collected == {i \in Repo : future[i] = "collected"}

\* The batch was reported: display_stats / export_stats or the
\* "no statistics" exit, in owner mode.
BatchReported ==
    /\ OwnerMode
    /\ pc = "exit"
    /\ message = "no_stats" \/ displayed

\* C11: in a run where enabled steps are eventually taken, (a) a future
\* only moves forward through submitted, running, finished, collected, one
\* stage at a time, its result is set when it finishes and never changes
\* afterwards; (b) the progress count is the number of collected futures;
\* (c) the report is reached only with all N futures collected and the
\* progress count equal to N; (d) once the submission has begun, either an
\* interrupt arrives or the run ends reported with all N calls collected.
C11_CompleteCollection ==
    /\ [][\A i \in Repo :
            /\ future'[i] # future[i] => <<future[i], future'[i]>> \in FutureStep
            /\ result'[i] # result[i] =>
                 future[i] = "running" /\ future'[i] = "finished"]_vars
    /\ [](pbar = Cardinality(Collected))
    /\ []((OwnerMode /\ pc = "report") \/ BatchReported =>
            BatchComplete /\ pbar = repos /\ Submitted = 1..repos)
    /\ (pc = "submitting") ~>
           (interrupted # "no" \/ (BatchReported /\ BatchComplete /\ pbar = repos))

\* C11 witness: a batch larger than the pool was reported without an
\* interrupt, one of its calls having failed.
C11_Witness ==
    /\ BatchReported
    /\ interrupted = "no"
    /\ repos > max_workers
    /\ pbar = repos
    /\ FailedCalls # {}

\* The owner argument holds the separator "/".
MalformedOwner == args.slashes > 0

\* The run ended for no other reason than the one under study: the token
\* was there, --issues came with --repo, and no interrupt arrived.
PlainExit ==
    /\ pc = "exit"
    /\ args.token
    /\ args.issues => args.repo
    /\ interrupted = "no"

\* C13 as stated: in every mode, a run whose owner argument holds a "/"
\* sends no API request, ends with a non-zero exit status, and the message
\* it prints is the usage error.
C13_Original ==
    MalformedOwner =>
        /\ ~requested
        /\ pc = "exit" => exit_code # 0
        /\ PlainExit => message = "bad_owner"

\* C13 amended: in the owner-wide mode, a run whose owner argument holds a
\* "/" sends no API request, ends with a non-zero exit status, and prints
\* the usage error.
C13_MalformedOwner ==
    (OwnerMode /\ MalformedOwner) =>
        /\ ~requested
        /\ repos = -1 /\ Submitted = {}
        /\ pc = "exit" => exit_code = 1
        /\ PlainExit => message = "bad_owner"

\* C13 witness: an owner-wide run given "owner/repo" ended with the usage
\* error.
C13_Witness ==
    /\ OwnerMode
    /\ MalformedOwner
    /\ PlainExit
    /\ message = "bad_owner"
    /\ exit_code = 1

(***************************************************************************)
(* The API client, request by request                                      *)
(***************************************************************************)

\* A JSON timestamp: <<>> is null, <<h>> a time, in hours.
Null == <<>>
ClosedAt == {Null, <<60>>}

\* Numbers of the pull requests of the repository.
PRNumbers == {1}

\* An entry of the issues list.  pull_request = 0: the key is absent,
\* otherwise the number of the pull request the entry is linked to.
IssueEntry ==
    [pull_request : {0} \cup PRNumbers, state : {"open", "closed"},
     created_at : {<<0>>}, closed_at : ClosedAt]

\* An entry of the pulls list.
PullEntry ==
    [number : PRNumbers, state : {"open", "closed"},
     merged_at : {Null, <<48>>}, created_at : {<<0>>}, closed_at : ClosedAt]

\* An entry of the repository list: the k-th repository of the owner.
RepoEntry(k) == [name |-> k]

SeqsUpTo(E, n) == UNION {[1..k -> E] : k \in 0..n}

Failed == [status |-> "fail", items |-> <<>>]
Page(items) == [status |-> "ok", items |-> items]

\* The answers the API can give to a page request when `room` more entries
\* fit into the bound: a failure, or a page of entries (possibly empty).
PageAnswers(E, room) == {Failed} \cup {Page(items) : items \in SeqsUpTo(E, room)}

RepoPageAnswers(have, room) ==
    {Failed} \cup
    {Page([j \in 1..n |-> RepoEntry(have + j)]) : n \in 0..room}

\* response.raise_for_status(): TRUE when it raises.
raise_for_status_unchecked(status) == FALSE
raise_for_status(status) == status = "fail"

\* list.extend: the page is appended to the accumulated list.
extend_overwrite(acc, items) == items
extend(acc, items) == acc \o items

Logged(endpoint, p, answer) ==
    Append(log, [endpoint |-> endpoint, page |-> p,
                 status |-> answer.status, items |-> answer.items])

RECURSIVE Sum(_)
Sum(s) == IF s = <<>> THEN 0 ELSE Head(s) + Sum(Tail(s))

\* mean with integer division.
mean_truncated(s) == [num |-> Sum(s) \div Len(s), den |-> 1]

\* statistics.mean of a non-empty list, as the fraction num / den.
mean(s) == [num |-> Sum(s), den |-> Len(s)]

\* (closed - created).days
resolution_days(e) == (e.closed_at[1] - e.created_at[1]) \div 24

ResolutionTimes(entries) == [k \in 1..Len(entries) |-> resolution_days(entries[k])]

\* datetime.strptime raises on a null timestamp.
ParseFails(entries) == \E k \in 1..Len(entries) : entries[k].closed_at = Null

\* 'pull_request' not in issue
is_pure_unfiltered(issue) == TRUE
is_pure(issue) == issue.pull_request = 0
is_open(e) == e.state = "open"
is_closed(e) == e.state = "closed"
is_open_pr(pr) == pr.state = "open"
is_merged(pr) == pr.merged_at # Null
is_rejected(pr) == pr.state = "closed" /\ pr.merged_at = Null

\* get_repo_issues_and_prs, lines 92-146: the summary of the fetched entries,
\* or None when a timestamp cannot be parsed.
Summarize(fetched_issues, prs) ==
    LET pure_issues == SelectSeq(fetched_issues, is_pure)
        open_issues == SelectSeq(pure_issues, is_open)
        closed_issues == SelectSeq(pure_issues, is_closed)
        open_prs == SelectSeq(prs, is_open_pr)
        merged_prs == SelectSeq(prs, is_merged)
        closed_prs == SelectSeq(prs, is_rejected)
        issue_resolution_times == ResolutionTimes(closed_issues)
        pr_resolution_times == ResolutionTimes(merged_prs \o closed_prs)
    IN  IF ParseFails(closed_issues) \/ ParseFails(merged_prs \o closed_prs)
          THEN None
          ELSE [kind |-> "record",
                issues |-> [total |-> Len(pure_issues),
                            open |-> Len(open_issues),
                            closed |-> Len(closed_issues),
                            avg_resolution_days |->
                                IF issue_resolution_times # <<>>
                                  THEN mean(issue_resolution_times)
                                  ELSE [num |-> 0, den |-> 1]],
                pulls |-> [total |-> Len(prs),
                           open |-> Len(open_prs),
                           merged |-> Len(merged_prs),
                           rejected |-> Len(closed_prs),
                           avg_resolution_days |->
                               IF pr_resolution_times # <<>>
                                 THEN mean(pr_resolution_times)
                                 ELSE [num |-> 0, den |-> 1]]]

\* get_repo_stats, lines 166-169: the summary substituted for None.
ZeroSummary ==
    [kind |-> "record",
     issues |-> [total |-> 0, open |-> 0, closed |-> 0,
                 avg_resolution_days |-> [num |-> 0, den |-> 1]],
     pulls |-> [total |-> 0, open |-> 0, merged |-> 0, rejected |-> 0,
                avg_resolution_days |-> [num |-> 0, den |-> 1]]]

\* round(x, 1) of the fraction x = num / den (den > 0), in tenths:
\* to the nearest tenth, a tie to the even one.
round1(x) ==
    LET q == (10 * x.num) \div x.den
        r == (10 * x.num) % x.den
    IN  IF 2 * r < x.den THEN q
        ELSE IF 2 * r > x.den THEN q + 1
        ELSE IF q % 2 = 0 THEN q ELSE q + 1

\* get_repo_stats, lines 165-204: the record built from the commit and the
\* summary (None replaced by the all-zero summary).
RepoRecord(commit, summary) ==
    LET s == IF Truthy(summary) THEN summary ELSE ZeroSummary
        last_commit_date == IF commit = "ok" THEN <<1>> ELSE Null
    IN  [kind |-> "record",
         name |-> 1,
         last_commit |-> IF last_commit_date # Null THEN "ago" ELSE "Never",
         total_issues |-> s.issues.total,
         open_issues |-> s.issues.open,
         closed_issues |-> s.issues.closed,
         issue_resolution_time_avg |-> round1(s.issues.avg_resolution_days),
         total_prs |-> s.pulls.total,
         open_prs |-> s.pulls.open,
         merged_prs |-> s.pulls.merged,
         rejected_prs |-> s.pulls.rejected,
         pr_resolution_time_avg |-> round1(s.pulls.avg_resolution_days)]

\* No run of main() is modelled while one client call is followed.
MainIdle ==
    /\ args = [token |-> TRUE, issues |-> FALSE, repo |-> FALSE, slashes |-> 0]
    /\ pc = "idle"
    /\ exit_code = -1
    /\ message = "none"
    /\ requested = FALSE
    /\ repos = -1
    /\ future = [i \in Repo |-> "none"]
    /\ result = [i \in Repo |-> Unset]
    /\ stats = <<>>
    /\ pbar = 0
    /\ issues = Unset
    /\ interrupted = "no"
    /\ displayed = FALSE
    /\ exported = "none"

InitFetch ==
    /\ MainIdle
    /\ fcall \in {"get_all_repos", "get_repo_stats"}
    /\ fpc = IF fcall = "get_all_repos" THEN "repos_loop" ELSE "meta"
    /\ page = 1
    /\ all_repos = <<>>
    /\ all_issues = <<>>
    /\ all_prs = <<>>
    /\ last_commit = "unset"
    /\ issue_pr_stats = Unset
    /\ ret = Unset
    /\ log = <<>>

Room == MaxEntries - (Len(all_repos) + Len(all_issues) + Len(all_prs))

\* get_all_repos, lines 42-60: one iteration of the loop.
ReposPage ==
    /\ fpc = "repos_loop"
    /\ \E answer \in RepoPageAnswers(Len(all_repos), Room) :
         /\ log' = Logged("repos", page, answer)
         /\ IF raise_for_status(answer.status)
              THEN \* the exception leaves get_all_repos
                   /\ fpc' = "raised"
                   /\ UNCHANGED <<page, all_repos, ret>>
              ELSE IF answer.items = <<>>
                THEN /\ fpc' = "returned"
                     /\ ret' = [kind |-> "list", n |-> Len(all_repos),
                                items |-> all_repos]
                     /\ UNCHANGED <<page, all_repos>>
                ELSE /\ all_repos' = extend(all_repos, answer.items)
                     /\ page' = page + 1
                     /\ UNCHANGED <<fpc, ret>>
    /\ UNCHANGED <<fcall, all_issues, all_prs, last_commit, issue_pr_stats>>
    /\ UNCHANGED mvars

\* get_repo_stats, lines 154-159: the repository metadata.
FetchMeta ==
    /\ fpc = "meta"
    /\ \E answer \in {"ok", "empty", "fail"} :
         /\ log' = Logged("repo", 0, [status |-> answer, items |-> <<>>])
         /\ IF raise_for_status(answer)
              THEN fpc' = "returned" /\ ret' = None    \* except Exception
              ELSE IF answer = "empty"
                THEN fpc' = "returned" /\ ret' = None  \* if not repo_data
                ELSE fpc' = "commits" /\ UNCHANGED ret
    /\ UNCHANGED <<fcall, page, all_repos, all_issues, all_prs, last_commit,
                   issue_pr_stats>>
    /\ UNCHANGED mvars

\* FetchCommits with a failed request treated like an empty commit list.
FetchCommits_tolerant ==
    /\ fpc = "commits"
    /\ \E answer \in {"ok", "empty", "nodate", "fail"} :
         /\ log' = Logged("commits", 0, [status |-> answer, items |-> <<>>])
         /\ last_commit' = IF answer = "fail" THEN "empty" ELSE answer
         /\ fpc' = "issues_loop"
         /\ page' = 1
         /\ UNCHANGED ret
    /\ UNCHANGED <<fcall, all_repos, all_issues, all_prs, issue_pr_stats>>
    /\ UNCHANGED mvars

\* get_repo_stats, lines 161-163: the latest commit.
FetchCommits ==
    /\ fpc = "commits"
    /\ \E answer \in {"ok", "empty", "nodate", "fail"} :
         /\ log' = Logged("commits", 0, [status |-> answer, items |-> <<>>])
         /\ IF raise_for_status(answer)
              THEN /\ fpc' = "returned"                \* except Exception
                   /\ ret' = None
                   /\ UNCHANGED <<last_commit, page>>
              ELSE /\ last_commit' = answer
                   /\ fpc' = "issues_loop"
                   /\ page' = 1
                   /\ UNCHANGED ret
    /\ UNCHANGED <<fcall, all_repos, all_issues, all_prs, issue_pr_stats>>
    /\ UNCHANGED mvars

\* IssuesPage without the try / except of get_repo_issues_and_prs: the
\* exception reaches the except clause of get_repo_stats.
IssuesPage_uncaught ==
    /\ fpc = "issues_loop"
    /\ \E answer \in PageAnswers(IssueEntry, Room) :
         /\ log' = Logged("issues", page, answer)
         /\ IF raise_for_status(answer.status)
              THEN /\ ret' = None
                   /\ fpc' = "returned"
                   /\ UNCHANGED <<page, all_issues>>
              ELSE IF answer.items = <<>>
                THEN /\ fpc' = "pulls_loop"
                     /\ page' = 1
                     /\ UNCHANGED <<all_issues, ret>>
                ELSE /\ all_issues' = extend(all_issues, answer.items)
                     /\ page' = page + 1
                     /\ UNCHANGED <<fpc, ret>>
    /\ UNCHANGED <<fcall, all_repos, all_prs, last_commit, issue_pr_stats>>
    /\ UNCHANGED mvars

\* get_repo_issues_and_prs, lines 68-78: one iteration of the issues loop.
IssuesPage ==
    /\ fpc = "issues_loop"
    /\ \E answer \in PageAnswers(IssueEntry, Room) :
         /\ log' = Logged("issues", page, answer)
         /\ IF raise_for_status(answer.status)
              THEN \* except Exception: return None
                   /\ issue_pr_stats' = None
                   /\ fpc' = "record"
                   /\ UNCHANGED <<page, all_issues>>
              ELSE IF answer.items = <<>>
                THEN /\ fpc' = "pulls_loop"
                     /\ page' = 1
                     /\ UNCHANGED <<all_issues, issue_pr_stats>>
                ELSE /\ all_issues' = extend(all_issues, answer.items)
                     /\ page' = page + 1
                     /\ UNCHANGED <<fpc, issue_pr_stats>>
    /\ UNCHANGED <<fcall, all_repos, all_prs, last_commit, ret>>
    /\ UNCHANGED mvars

\* PullsPage with a failed page request summarising what was fetched so far.
PullsPage_partial ==
    /\ fpc = "pulls_loop"
    /\ \E answer \in PageAnswers(PullEntry, Room) :
         /\ log' = Logged("pulls", page, answer)
         /\ IF raise_for_status(answer.status) \/ answer.items = <<>>
              THEN /\ issue_pr_stats' = Summarize(all_issues, all_prs)
                   /\ fpc' = "record"
                   /\ UNCHANGED <<page, all_prs>>
              ELSE /\ all_prs' = extend(all_prs, answer.items)
                   /\ page' = page + 1
                   /\ UNCHANGED <<fpc, issue_pr_stats>>
    /\ UNCHANGED <<fcall, all_repos, all_issues, last_commit, ret>>
    /\ UNCHANGED mvars

\* get_repo_issues_and_prs, lines 80-146: one iteration of the pulls loop;
\* after the empty page the summary is computed and returned.
PullsPage ==
    /\ fpc = "pulls_loop"
    /\ \E answer \in PageAnswers(PullEntry, Room) :
         /\ log' = Logged("pulls", page, answer)
         /\ IF raise_for_status(answer.status)
              THEN /\ issue_pr_stats' = None
                   /\ fpc' = "record"
                   /\ UNCHANGED <<page, all_prs>>
              ELSE IF answer.items = <<>>
                THEN /\ issue_pr_stats' = Summarize(all_issues, all_prs)
                     /\ fpc' = "record"
                     /\ UNCHANGED <<page, all_prs>>
                ELSE /\ all_prs' = extend(all_prs, answer.items)
                     /\ page' = page + 1
                     /\ UNCHANGED <<fpc, issue_pr_stats>>
    /\ UNCHANGED <<fcall, all_repos, all_issues, last_commit, ret>>
    /\ UNCHANGED mvars

\* get_repo_stats, lines 165-204: build and return the record.
BuildRecord ==
    /\ fpc = "record"
    /\ ret' = RepoRecord(last_commit, issue_pr_stats)
    /\ fpc' = "returned"
    /\ UNCHANGED <<fcall, page, all_repos, all_issues, all_prs, last_commit,
                   issue_pr_stats, log>>
    /\ UNCHANGED mvars

NextFetch ==
    \/ ReposPage
    \/ FetchMeta
    \/ FetchCommits
    \/ IssuesPage
    \/ PullsPage
    \/ BuildRecord

SpecFetch == InitFetch /\ [][NextFetch]_vars

(***************************************************************************)
(* Properties of one client call (SpecFetch)                               *)
(***************************************************************************)

Loops == {"repos", "issues", "pulls"}

\* The requests sent to one endpoint, in the order they were sent.
LogOf(endpoint) == SelectSeq(log, LAMBDA x : x.endpoint = endpoint)

RECURSIVE Concat(_)
Concat(l) == IF l = <<>> THEN <<>> ELSE Head(l).items \o Concat(Tail(l))

Accumulated(endpoint) ==
    CASE endpoint = "repos" -> all_repos
      [] endpoint = "issues" -> all_issues
      [] endpoint = "pulls" -> all_prs

\* The pagination of `endpoint` received its empty page.
Exhausted(endpoint) ==
    \E k \in 1..Len(LogOf(endpoint)) :
        LogOf(endpoint)[k].status = "ok" /\ LogOf(endpoint)[k].items = <<>>

\* C1: a pagination that is answered k non-empty pages and then an empty
\* page, without a failure, has requested the pages 1..k+1 once each, in
\* order, nothing after the empty page, and has accumulated (get_all_repos:
\* returned) exactly the entries of the k pages in page and entry order.
C1_PaginationConcatenates ==
    \A e \in Loops :
        Exhausted(e) =>
            LET l == LogOf(e) IN
            /\ \A k \in 1..Len(l) : l[k].page = k /\ l[k].status = "ok"
            /\ \A k \in 1..Len(l) : (l[k].items = <<>>) <=> (k = Len(l))
            /\ Accumulated(e) = Concat(l)
            /\ e = "repos" =>
                 /\ fpc = "returned"
                 /\ ret = [kind |-> "list", n |-> Len(Concat(l)),
                           items |-> Concat(l)]

\* C1 witness: the issues loop ended after two non-empty pages and the
\* empty third page.
C1_Witness ==
    /\ Exhausted("issues")
    /\ Len(LogOf("issues")) = 3
    /\ Len(all_issues) >= 2

FailedPage(k) == log[k].endpoint \in Loops /\ log[k].status = "fail"

\* C3: a failed page request ends its pagination: it is the last request
\* of the call (no later page, no retry), get_all_repos raises instead of
\* returning a list, and get_repo_issues_and_prs returns None, so that no
\* entry of the pages already received reaches the record.
C3_FailedPageAborts ==
    \A k \in 1..Len(log) :
        FailedPage(k) =>
            /\ k = Len(log)
            /\ log[k].endpoint = "repos" => fpc = "raised" /\ ret = Unset
            /\ log[k].endpoint # "repos" =>
                 /\ issue_pr_stats = None
                 /\ fpc \in {"record", "returned"}
                 /\ fpc = "returned" =>
                      ret.total_issues = 0 /\ ret.total_prs = 0

\* C3 witness: page 2 of the issues loop failed after page 1 had delivered
\* entries, and the call has returned.
C3_Witness ==
    /\ fpc = "returned"
    /\ log # <<>>
    /\ FailedPage(Len(log))
    /\ log[Len(log)].endpoint = "issues"
    /\ log[Len(log)].page = 2
    /\ all_issues # <<>>

\* An issue or pull page request of the call failed.
TrackerRequestFailed ==
    \E k \in 1..Len(log) : log[k].endpoint \in {"issues", "pulls"} /\ log[k].status = "fail"

\* Both paginations ended, and a timestamp that is parsed is null.
TrackerParseFailed ==
    /\ Exhausted("issues") /\ Exhausted("pulls")
    /\ \/ \E k \in 1..Len(all_issues) :
            /\ all_issues[k].pull_request = 0
            /\ all_issues[k].state = "closed"
            /\ all_issues[k].closed_at = Null
       \/ \E k \in 1..Len(all_prs) :
            /\ all_prs[k].merged_at # Null \/ all_prs[k].state = "closed"
            /\ all_prs[k].closed_at = Null

AllZero(r) ==
    /\ r.total_issues = 0 /\ r.open_issues = 0 /\ r.closed_issues = 0
    /\ r.issue_resolution_time_avg = 0
    /\ r.total_prs = 0 /\ r.open_prs = 0 /\ r.merged_prs = 0
    /\ r.rejected_prs = 0 /\ r.pr_resolution_time_avg = 0

\* C4: when the issue or pull-request fetch, or the parsing of its entries,
\* fails (metadata and commit requests having succeeded),
\* get_repo_issues_and_prs returns None and get_repo_stats returns normally
\* with a record whose issue / PR counts and averages are all 0.
C4_TrackerFailureRecovered ==
    (TrackerRequestFailed \/ TrackerParseFailed) =>
        /\ issue_pr_stats = None
        /\ fpc \in {"record", "returned"}
        /\ fpc = "returned" => ret.kind = "record" /\ AllZero(ret)

\* C4 witness: the call returned a record after the parsing of fetched
\* entries failed.
C4_Witness ==
    /\ fpc = "returned"
    /\ TrackerParseFailed
    /\ ~TrackerRequestFailed
    /\ ret.kind = "record"

RequestFailed(endpoint) ==
    \E k \in 1..Len(log) : log[k].endpoint = endpoint /\ log[k].status = "fail"

\* C5 as stated: a repository one of whose metadata, commit, issue or PR
\* fetches fails yields no record (get_repo_stats returns None, which main
\* drops).
C5_Original ==
    (fcall = "get_repo_stats" /\ fpc = "returned") =>
        ((\E e \in {"repo", "commits", "issues", "pulls"} : RequestFailed(e))
            => ret = None)

\* C5 amended: a failed metadata or commit fetch makes get_repo_stats return
\* None (the repository yields no record); a failed issue or PR fetch does
\* not: the call returns a record with all-zero issue / PR counts.  In both
\* cases the call returns normally.
C5_FailurePolicy ==
    /\ fcall = "get_repo_stats" => fpc # "raised"
    /\ (fcall = "get_repo_stats" /\ fpc = "returned") =>
         /\ (RequestFailed("repo") \/ RequestFailed("commits")) => ret = None
         /\ (RequestFailed("issues") \/ RequestFailed("pulls")) =>
              ret.kind = "record" /\ AllZero(ret)

\* C5 witness: the commit request failed and the call returned.
C5_Witness ==
    /\ fpc = "returned"
    /\ RequestFailed("commits")

Linked(k) == all_issues[k].pull_request # 0

Count(seq, P(_)) == Cardinality({k \in 1..Len(seq) : P(seq[k])})

\* C6 as stated: an issue-list entry that carries pull_request is not
\* counted as an issue and is an element of the pull-request list the PR
\* counts are computed from.
C6_Original ==
    issue_pr_stats.kind = "record" =>
        \A k \in 1..Len(all_issues) :
            Linked(k) =>
                /\ issue_pr_stats.issues.total
                     = Count(all_issues, LAMBDA i : i.pull_request = 0)
                /\ \E j \in 1..Len(all_prs) :
                     all_prs[j].number = all_issues[k].pull_request

\* C6 amended: the issue counts cover exactly the entries without
\* pull_request, and the PR total is the number of entries of the pulls
\* endpoint, whatever the issue list held.
C6_LinkedEntriesExcluded ==
    issue_pr_stats.kind = "record" =>
        /\ issue_pr_stats.issues.total
             = Count(all_issues, LAMBDA i : i.pull_request = 0)
        /\ issue_pr_stats.issues.open
             = Count(all_issues,
                     LAMBDA i : i.pull_request = 0 /\ i.state = "open")
        /\ issue_pr_stats.issues.closed
             = Count(all_issues,
                     LAMBDA i : i.pull_request = 0 /\ i.state = "closed")
        /\ issue_pr_stats.pulls.total = Len(all_prs)

\* C6 witness: a summary was computed from an issue list holding a linked
\* entry and an entry that is an issue.
C6_Witness ==
    /\ issue_pr_stats.kind = "record"
    /\ \E k \in 1..Len(all_issues) : Linked(k)
    /\ \E k \in 1..Len(all_issues) : ~Linked(k)

\* C7 as stated: the classes open, merged and rejected partition the
\* fetched pull requests, so their counts add up to the total.
C7_Original ==
    issue_pr_stats.kind = "record" =>
        issue_pr_stats.pulls.open + issue_pr_stats.pulls.merged
            + issue_pr_stats.pulls.rejected = issue_pr_stats.pulls.total

\* The answer the request `endpoint` of get_repo_stats received.
Answered(endpoint, status) ==
    \E k \in 1..Len(log) : log[k].endpoint = endpoint /\ log[k].status = status

\* C12 as stated: when the metadata fetch succeeds and no commit is
\* retrievable (the latest-commit request fails, returns an empty list, or
\* returns a commit without an author date), get_repo_stats returns a
\* record whose last_commit is "Never".
C12_Original ==
    (/\ fcall = "get_repo_stats"
     /\ fpc = "returned"
     /\ Answered("repo", "ok")
     /\ \E a \in {"fail", "empty", "nodate"} : Answered("commits", a)) =>
        ret.kind = "record" /\ ret.last_commit = "Never"

\* The positions of the log at which `endpoint` was requested.
RequestsOf(endpoint) == {k \in 1..Len(log) : log[k].endpoint = endpoint}

\* The issue counts of the record are those of the whole issue list, its PR
\* counts those of the whole pull list.
FromCompleteRuns(r) ==
    /\ Exhausted("issues") /\ Exhausted("pulls")
    /\ ~TrackerRequestFailed
    /\ r.total_issues = Count(all_issues, LAMBDA i : i.pull_request = 0)
    /\ r.open_issues
         = Count(all_issues, LAMBDA i : i.pull_request = 0 /\ i.state = "open")
    /\ r.closed_issues
         = Count(all_issues, LAMBDA i : i.pull_request = 0 /\ i.state = "closed")
    /\ r.total_prs = Len(all_prs)

\* C15: (a) every pull page is requested after the empty page of the issue
\* pagination, and no issue page after a pull page; (b) a failed issue or
\* pull page request, or an unparseable entry, leaves no summary, whatever
\* was fetched before; (c) a returned record carries either the counts of
\* two complete pagination runs or all-zero issue and PR counts.
C15_AllOrNothing ==
    /\ \A k \in RequestsOf("pulls") :
         /\ \E j \in RequestsOf("issues") :
              j < k /\ log[j].status = "ok" /\ log[j].items = <<>>
         /\ \A j \in RequestsOf("issues") : j < k
    /\ (TrackerRequestFailed \/ TrackerParseFailed) => issue_pr_stats = None
    /\ (fpc = "returned" /\ ret.kind = "record") =>
         /\ FromCompleteRuns(ret) \/ AllZero(ret)
         /\ (TrackerRequestFailed \/ TrackerParseFailed) => AllZero(ret)

\* C15 witness: a record was returned after a pull page request failed,
\* the issue pagination having delivered an issue.
C15_Witness ==
    /\ fpc = "returned"
    /\ ret.kind = "record"
    /\ RequestFailed("pulls")
    /\ \E k \in 1..Len(all_issues) : ~Linked(k)

(***************************************************************************)
(* The summary of fetched entries (SpecMean)                               *)
(***************************************************************************)

\* Closing times that give resolution times of 2, 4 and 6 whole days.
ClosedAtSample == {Null, <<50>>, <<96>>, <<156>>}

IssueSample ==
    [pull_request : {0} \cup PRNumbers, state : {"open", "closed"},
     created_at : {<<0>>}, closed_at : ClosedAtSample]

PullSample ==
    [number : PRNumbers, state : {"open", "closed"},
     merged_at : {Null, <<48>>}, created_at : {<<0>>},
     closed_at : ClosedAtSample]

\* get_repo_issues_and_prs has left both pagination loops with the lists
\* all_issues and all_prs.
InitMean ==
    /\ MainIdle
    /\ fcall = "get_repo_stats"
    /\ fpc = "summarize"
    /\ page = 1
    /\ all_repos = <<>>
    /\ all_issues \in SeqsUpTo(IssueSample, MaxSample)
    /\ all_prs \in SeqsUpTo(PullSample, MaxSample - Len(all_issues))
    /\ last_commit = "ok"
    /\ issue_pr_stats = Unset
    /\ ret = Unset
    /\ log = <<>>

\* get_repo_issues_and_prs, lines 92-146: the summary is computed and
\* returned to get_repo_stats.
Summary ==
    /\ fpc = "summarize"
    /\ issue_pr_stats' = Summarize(all_issues, all_prs)
    /\ fpc' = "record"
    /\ UNCHANGED <<fcall, page, all_repos, all_issues, all_prs, last_commit,
                   ret, log>>
    /\ UNCHANGED mvars

NextMean ==
    \/ Summary
    \/ BuildRecord

SpecMean == InitMean /\ [][NextMean]_vars

\* Whole days between the creation and the closing of an entry.
WholeDays(e) ==
    LET hours == e.closed_at[1] - e.created_at[1]
    IN  CHOOSE d \in 0..hours : 24 * d <= hours /\ hours < 24 * (d + 1)

\* Sum of the whole days of the entries of seq at the positions S.
RECURSIVE SumDays(_, _)
SumDays(seq, S) ==
    IF S = {} THEN 0
    ELSE LET k == CHOOSE j \in S : TRUE
         IN  WholeDays(seq[k]) + SumDays(seq, S \ {k})

\* avg is the arithmetic mean over the positions S of seq, 0 when S is empty.
IsMean(avg, seq, S) ==
    /\ avg.den > 0
    /\ IF S = {}
         THEN avg.num = 0
         ELSE avg.num * Cardinality(S) = avg.den * SumDays(seq, S)

\* The closed issues that are no pull requests.
ClosedIssues ==
    {k \in 1..Len(all_issues) :
        all_issues[k].pull_request = 0 /\ all_issues[k].state = "closed"}

\* The merged and the rejected pull requests.
ResolvedPulls ==
    {k \in 1..Len(all_prs) :
        \/ all_prs[k].merged_at # Null
        \/ all_prs[k].state = "closed" /\ all_prs[k].merged_at = Null}

\* An entry whose resolution time is computed has no closing time.
Unparseable ==
    \/ \E k \in ClosedIssues : all_issues[k].closed_at = Null
    \/ \E k \in ResolvedPulls : all_prs[k].closed_at = Null

\* C14: the summary is discarded only when a closing time that enters a
\* mean cannot be parsed (an empty set discards nothing); otherwise its
\* issue average is the arithmetic mean of the whole days from creation to
\* closing over the closed issues that are no pull requests, its PR average
\* the same over the merged and rejected pull requests, and either is 0
\* when its set is empty.
C14_ResolutionMean ==
    fpc # "summarize" =>
        /\ issue_pr_stats = None <=> Unparseable
        /\ issue_pr_stats.kind = "record" =>
             /\ IsMean(issue_pr_stats.issues.avg_resolution_days,
                       all_issues, ClosedIssues)
             /\ IsMean(issue_pr_stats.pulls.avg_resolution_days,
                       all_prs, ResolvedPulls)

\* C14 witness: three issues closed after 2, 4 and 6 days average 4, and
\* the PR average of the same summary, over no pull request, is 0.
C14_Witness ==
    /\ issue_pr_stats.kind = "record"
    /\ Cardinality(ClosedIssues) = 3
    /\ {WholeDays(all_issues[k]) : k \in ClosedIssues} = {2, 4, 6}
    /\ issue_pr_stats.issues.avg_resolution_days = [num |-> 12, den |-> 3]
    /\ ResolvedPulls = {}
    /\ issue_pr_stats.pulls.avg_resolution_days.num = 0

====
